---- MODULE Spec2Model ----
(***************************************************************************)
(* Gateway session manager of helly: the frame handler `message`, the      *)
(* Client's login / reconnect / cleanUp, and the collaborators they call   *)
(* (Heartbeater, Payloads, WebsocketManager, the READY / RESUMED actions). *)
(*                                                                         *)
(* The client is one record `c`; every function of the source is an        *)
(* operator from the record before the call to the record after it, and    *)
(* every action of the state machine is one whole handler run.             *)
(***************************************************************************)
EXTENDS Integers, Sequences, FiniteSets, TLC

\* ------------------------------------------------------------- bounds
MaxSeq  == 2   \* Dispatch sequence numbers are 1..MaxSeq
MaxConn == 3   \* transports opened in one run

\* ------------------------------------------------------ optional values
\* undefined / null of the source is the empty tuple, a present value v is <<v>>
None == <<>>
Some(v) == <<v>>
Max(a, b) == IF a >= b THEN a ELSE b

SessionIds == {"abc", "xyz"}
Intervals  == {100, 200}
Tokens     == {"", "tok"}
Times      == {0, 1}       \* the values Date.now() returns
EventNames == {"READY", "RESUMED", "OTHER", "CHANNEL_CREATE"}
ChannelIds == {"c1", "c2"}
ChannelNames == {"general", "random"}
GuildIds   == {"g1", "g2"}

\* ------------------------------------------------------- channel data
\* The fields of a channel payload the model follows; None is a field the
\* payload does not carry.
Opt(S) == {None} \cup { Some(v) : v \in S }
ChannelData(id, name, guild_id) == [id |-> id, name |-> name, guild_id |-> guild_id]
EmptyData == ChannelData(None, None, None)

\* ------------------------------------------------------------- frames
\* A decoded frame {op, s, t, d}: `session`, `interval` and `resumable` are
\* the fields of d the handlers read ("" / 0 / FALSE where d has none).
Frame(op, s, t, session, interval, resumable) ==
    [op |-> op, s |-> s, t |-> t, session |-> session,
     interval |-> interval, resumable |-> resumable, chan |-> EmptyData]
\* A CHANNEL_CREATE Dispatch: d is the channel payload.
ChannelCreate(n, data) ==
    [Frame(0, Some(n), "CHANNEL_CREATE", "", 0, FALSE) EXCEPT !.chan = data]

DispatchFrames ==
    { Frame(0, Some(n), "READY", sid, 0, FALSE) : n \in 1..MaxSeq, sid \in SessionIds }
    \cup { Frame(0, Some(n), t, "", 0, FALSE) : n \in 1..MaxSeq, t \in {"RESUMED", "OTHER"} }
HelloFrames == { Frame(10, None, "", "", i, FALSE) : i \in Intervals }
InvalidSessionFrames == { Frame(9, None, "", "", 0, r) : r \in BOOLEAN }
\* Data that JSON.parse rejects, and a JSON object with no `op` (nor `s`):
\* neither has an opcode, the numbers below only tell them apart.
Undecodable == Frame(-2, None, "", "", 0, FALSE)
NoOpcode    == Frame(-3, None, "", "", 0, FALSE)
MalformedFrames == {Undecodable, NoOpcode}
Frames ==
    DispatchFrames \cup HelloFrames \cup InvalidSessionFrames
    \cup { Frame(11, None, "", "", 0, FALSE), Frame(7, None, "", "", 0, FALSE) }
    \cup MalformedFrames

NoFrame == Frame(-1, None, "", "", 0, FALSE)

OpName(op) ==
    CASE op = 0 -> "Dispatch" [] op = 7 -> "Reconnect" [] op = 9 -> "InvalidSession"
      [] op = 10 -> "Hello" [] op = 11 -> "HeartbeatAck"
      [] op = -2 -> "Undecodable" [] op = -3 -> "NoOpcode" [] OTHER -> "Unknown"

\* -------------------------------------------------------------- state
VARIABLES
    token,              \* client.token
    session_id,         \* client.api.session_id
    sequence,           \* client.api.sequence
    should_resume,      \* client.api.should_resume
    heartbeat_interval, \* client.api.heartbeat_interval
    heartbeat_acked,    \* client.api.heartbeat_acked
    last_heartbeat,     \* client.api.last_heartbeat
    last_heartbeat_ack, \* client.api.last_heartbeat_ack
    ping,               \* client.ping (None is NaN)
    ready,              \* client.ready
    connection,         \* client.ws.connection: the transport last opened
    open,               \* transports whose socket is open
    nconn,              \* transports opened so far
    timers,             \* epochs whose heartbeat interval timer is scheduled
    log,                \* what the last handler run did, in order
    frame,              \* the frame the last handler run was given (NoFrame: none)
    phase,              \* history: the state of the spec's state machine
    hbSent,             \* history: a heartbeat was sent on this epoch, no HeartbeatAck since
    hbTick,             \* history: a tick sent a heartbeat, no HeartbeatAck or Hello since
    inFlight,           \* history: reconnect() opened a transport that has had no Hello yet
    channels,           \* client.channels: the cache, channel id -> Channel
    options,            \* client.options: a reference to an object of `heap`
    heap,               \* the objects clients share: reference -> fields
    other,              \* a second Client of the process (None until constructed)
    stale               \* history, kept by SpecEpochs: the last frame came from a
                        \* transport other than `connection`

\* The fields of the first client and its history.
clientVars == <<token, session_id, sequence, should_resume, heartbeat_interval,
                heartbeat_acked, last_heartbeat, last_heartbeat_ack, ping, ready,
                connection, open, nconn, timers, log, frame, phase, hbSent, hbTick,
                inFlight, channels, options, stale>>

vars == <<clientVars, heap, other>>

\* The client as the record the operators below transform; `now` is what
\* Date.now() returns during the handler run.
Client(t) ==
    [token |-> token, session_id |-> session_id, sequence |-> sequence,
     should_resume |-> should_resume, heartbeat_interval |-> heartbeat_interval,
     heartbeat_acked |-> heartbeat_acked, last_heartbeat |-> last_heartbeat,
     last_heartbeat_ack |-> last_heartbeat_ack, ping |-> ping, ready |-> ready,
     connection |-> connection, open |-> open, nconn |-> nconn, timers |-> timers,
     channels |-> channels, options |-> options,
     now |-> t, threw |-> FALSE, log |-> <<>>, frame |-> NoFrame]

\* One entry of the log: a call, an outbound frame, an emitted event, a throw.
\* `arg` is the payload of an emitted event, where the model follows it.
Ev(kind, name, sid, seq) ==
    [kind |-> kind, name |-> name, sid |-> sid, seq |-> seq, arg |-> None]
Note(c, kind, name) == [c EXCEPT !.log = Append(@, Ev(kind, name, None, None))]
Has(l, kind, name) == \E i \in 1..Len(l) : l[i].kind = kind /\ l[i].name = name
Count(l, kind, name) == Cardinality({ i \in 1..Len(l) : l[i].kind = kind /\ l[i].name = name })

\* ------------------------------------------------------- collaborators
\* Heartbeater, Payloads, WebsocketManager and the READY / RESUMED actions,
\* as the design document describes them.
\* Heartbeater.stop: cancels the timer; safe when none is running.
HeartbeaterStop(c) ==
    Note([c EXCEPT !.timers = {}], "call", "Heartbeater.stop")

\* Heartbeater.start: cancels any prior timer and schedules the recurring tick
\* for the connection in use.
HeartbeaterStart(c) ==
    Note([c EXCEPT !.timers = { c.connection[i] : i \in 1..Len(c.connection) }],
         "call", "Heartbeater.start")

\* Heartbeater.sendImmediately: one Heartbeat frame out of cycle, carrying the
\* current sequence; the timer is left alone.
HeartbeaterSendImmediately(c) ==
    [c EXCEPT !.log = Append(@, Ev("send", "Heartbeat", None, c.sequence))]

\* Payloads.sendResume: the Resume frame carries session_id and sequence.
sendResume(c) ==
    [c EXCEPT !.log = Append(@, Ev("send", "Resume", c.session_id, c.sequence))]

\* Payloads.sendIdentify: the Identify frame.
sendIdentify(c) ==
    [c EXCEPT !.log = Append(@, Ev("send", "Identify", None, None))]

\* WebsocketManager.connect: opens a new transport, which replaces the handle
\* held, and resets session_id / sequence unless a resume is wanted.
wsConnect(c) ==
    LET id == c.nconn + 1
        c1 == [c EXCEPT !.connection = Some(id), !.open = @ \cup {id}, !.nconn = id]
        c2 == IF c1.should_resume THEN c1
              ELSE [c1 EXCEPT !.session_id = None, !.sequence = None]
    IN  Note(c2, "call", "connect")

\* connection?.close(code): closes the socket the handle points to, if any.
connectionClose(c) ==
    [c EXCEPT !.open = @ \ { c.connection[i] : i \in 1..Len(c.connection) }]

\* The READY action: the session is established, its id captured.
handleReady(c, d) ==
    Note([c EXCEPT !.session_id = Some(d.session), !.ready = TRUE], "emit", "ready")

\* The RESUMED action: the session is established again.
handleResumed(c, d) ==
    Note([c EXCEPT !.ready = TRUE], "emit", "resumed")

\* ----------------------------------------------------------- Channel.ts
\* A Channel: its `data` and its `guildId` property.
Channel(data, guildId) == [data |-> data, guildId |-> guildId]
NewChannel == Channel(EmptyData, None)

\* { ...a, ...b }: the fields b carries replace those of a.
Spread(a, b) ==
    [k \in DOMAIN a |-> IF b[k] # None THEN b[k] ELSE a[k]]

\* a ?? b
Nullish(a, b) == IF a # None THEN a ELSE b

\* Channel.parseData(data, guild?): `data` is None when no data is passed,
\* `guild` is None or Some(id of the guild passed).
parseData(ch, data, guild) ==
    IF data = None THEN ch
    ELSE Channel(Spread(ch.data, data[1]), Nullish(data[1].guild_id, guild))

\* ChannelManager.updateOrSet(id, data), as the design describes the cache's
\* upsert: a channel not cached is created from the data, a cached one has the
\* data merged into it.
updateOrSet(c, id, data) ==
    LET old == IF id \in DOMAIN c.channels THEN c.channels[id] ELSE NewChannel
        ch  == parseData(old, Some(data), None)
        c1  == [c EXCEPT !.channels =
                   [k \in DOMAIN c.channels \cup {id} |->
                       IF k = id THEN ch ELSE c.channels[k]]]
    IN  Note(c1, "call", "channels.updateOrSet")

\* --------------------------------------------- actions/CHANNEL_CREATE.ts
\* handle() emitting whatever `ready` is
handleChannelCreate_alwaysEmits(c, data) ==
    LET c1 == updateOrSet(c, data.id[1], data)
        channel == c1.channels[data.id[1]]
    IN  [c1 EXCEPT !.log = Append(@, [Ev("emit", "channelCreate", None, None)
                                       EXCEPT !.arg = Some(channel)])]

handleChannelCreate(c, data) ==
    LET c1 == updateOrSet(c, data.id[1], data)
        channel == c1.channels[data.id[1]]
    IN  IF c1.ready
        THEN [c1 EXCEPT !.log = Append(@, [Ev("emit", "channelCreate", None, None)
                                            EXCEPT !.arg = Some(channel)])]
        ELSE c1

\* client.actions.loaded[eventName]?.handle(client, eventData): names without
\* a loaded action do nothing.
actionsHandle(c, f) ==
    CASE f.t = "READY"   -> handleReady(c, f)
      [] f.t = "RESUMED" -> handleResumed(c, f)
      [] f.t = "CHANNEL_CREATE" -> handleChannelCreate(c, f.chan)
      [] OTHER           -> c

\* ------------------------------------------------------------ Client.ts
\* The `intents` option: a list of flag names as the application writes it, or
\* the set of flags it resolves to.
IntentNames(names) == [kind |-> "names", names |-> names, bits |-> {}]
IntentBits(bits)   == [kind |-> "bits", names |-> <<>>, bits |-> bits]

\* Intents.parse: resolves a list of flag names to the set of flags; a value
\* already resolved is returned as it is.
IntentsParse(x) ==
    IF x.kind = "bits" THEN x
    ELSE IntentBits({ x.names[i] : i \in 1..Len(x.names) })

\* The module-level `defaultValues` object of ClientOptions, as imported.
ModuleHeap == [defaultValues |-> [intents |-> Some(IntentNames(<<>>))]]

\* new Client(options): `o` is None when no options are passed. The result is
\* the heap after the constructor and the fields of the new client.
construct(h, o) ==
    LET \* Object.assign(defaultValues, options) writes into defaultValues and
        \* returns that same object
        h1  == [h EXCEPT !["defaultValues"] = IF o = None THEN @ ELSE Spread(@, o[1])]
        ref == "defaultValues"
        h2  == [h1 EXCEPT ![ref].intents = Some(IntentsParse(@[1]))]
    IN  [heap |-> h2,
         client |-> [token |-> "", session_id |-> None, sequence |-> None,
                     should_resume |-> FALSE, heartbeat_interval |-> None,
                     heartbeat_acked |-> FALSE, last_heartbeat |-> None,
                     last_heartbeat_ack |-> None, ping |-> Some(-1), ready |-> FALSE,
                     connection |-> None, open |-> {}, nconn |-> 0, timers |-> {},
                     channels |-> <<>>, options |-> ref,
                     now |-> 0, threw |-> FALSE, log |-> <<>>, frame |-> NoFrame]]

cleanUp(c) ==
    [c EXCEPT !.ping = Some(1), !.ready = FALSE]

login(c, tok) ==
    IF tok = ""
    THEN Note([c EXCEPT !.threw = TRUE], "throw", "No token was provided")
    ELSE Note(wsConnect([c EXCEPT !.token = tok]), "emit", "debug")

\* reconnect() without its cleanUp() call
reconnect_skipsCleanUp(c) ==
    LET c0 == Note(c, "call", "reconnect")
        c1 == HeartbeaterStop(c0)
        c3 == Note(c1, "emit", "reconnecting")
        c4 == [c3 EXCEPT !.should_resume = (c3.session_id # None)]
    IN  login(c4, c4.token)

reconnect(c) ==
    LET c0 == Note(c, "call", "reconnect")
        c1 == HeartbeaterStop(c0)
        c2 == cleanUp(c1)
        c3 == Note(c2, "emit", "reconnecting")
        c4 == [c3 EXCEPT !.should_resume = (c3.session_id # None)]
    IN  login(c4, c4.token)

\* ------------------------------------------------- the frame handler
\* lines 14-15: the sequence of the frame is stored unless a resume is pending
storeSequence(c, f) ==
    IF ~c.should_resume THEN [c EXCEPT !.sequence = f.s] ELSE c

\* case 0
caseDispatch(c, f) ==
    actionsHandle(c, f)

\* case 9 without its guard: reconnects even while a resume is pending
caseInvalidSession_noGuard(c, f) ==
    reconnect(HeartbeaterStop(connectionClose(c)))

\* case 9
caseInvalidSession(c, f) ==
    IF c.should_resume THEN c
    ELSE reconnect(HeartbeaterStop(connectionClose(c)))

\* case 10 with the resume branch forgetting to clear should_resume
caseHello_keepsResume(c, f) ==
    IF c.should_resume
    THEN LET c1 == sendResume(c)
             c2 == [c1 EXCEPT !.heartbeat_interval = Some(f.interval)]
             c3 == Note(c2, "emit", "debug")
             c4 == [c3 EXCEPT !.heartbeat_acked = TRUE, !.ready = TRUE]
         IN  HeartbeaterSendImmediately(HeartbeaterStart(c4))
    ELSE LET c1 == [c EXCEPT !.heartbeat_interval = Some(f.interval)]
             c2 == Note(c1, "emit", "debug")
             c3 == [c2 EXCEPT !.heartbeat_acked = TRUE]
         IN  sendIdentify(HeartbeaterStart(c3))

\* case 10
caseHello(c, f) ==
    IF c.should_resume
    THEN LET c1 == sendResume(c)
             c2 == [c1 EXCEPT !.should_resume = FALSE,
                              !.heartbeat_interval = Some(f.interval)]
             c3 == Note(c2, "emit", "debug")
             c4 == [c3 EXCEPT !.heartbeat_acked = TRUE, !.ready = TRUE]
         IN  HeartbeaterSendImmediately(HeartbeaterStart(c4))
    ELSE LET c1 == [c EXCEPT !.heartbeat_interval = Some(f.interval)]
             c2 == Note(c1, "emit", "debug")
             c3 == [c2 EXCEPT !.heartbeat_acked = TRUE]
         IN  sendIdentify(HeartbeaterStart(c3))

\* case 11; the difference of the two timestamps is NaN (None) when no
\* heartbeat time was recorded
caseHeartbeatAck(c, f) ==
    LET c1 == Note(c, "emit", "debug")
        c2 == [c1 EXCEPT !.last_heartbeat_ack = Some(c1.now), !.heartbeat_acked = TRUE]
    IN  [c2 EXCEPT !.ping = IF c2.last_heartbeat = None THEN None
                             ELSE Some(c2.last_heartbeat_ack[1] - c2.last_heartbeat[1])]

\* line 8: JSON.parse throws a SyntaxError, which nothing in the handler catches
JSONparseThrows(c) ==
    Note([c EXCEPT !.threw = TRUE], "throw", "SyntaxError")

\* the handler with heartbeat_acked set before the switch, for every frame,
\* instead of inside case 11
message_anyFrameAcks(c, f) ==
    LET c0 == [c EXCEPT !.frame = f,
                        !.log = Append(@, Ev("frame", OpName(f.op), None, f.s))]
        c1 == [storeSequence(c0, f) EXCEPT !.heartbeat_acked = TRUE]
    IN  CASE f = Undecodable -> JSONparseThrows(c0)
          [] f.op = 0  -> caseDispatch(c1, f)
          [] f.op = 9  -> caseInvalidSession(c1, f)
          [] f.op = 10 -> caseHello(c1, f)
          [] f.op = 11 -> caseHeartbeatAck(c1, f)
          [] OTHER     -> c1

message(c, f) ==
    LET c0 == [c EXCEPT !.frame = f,
                        !.log = Append(@, Ev("frame", OpName(f.op), None, f.s))]
        c1 == storeSequence(c0, f)
    IN  CASE f = Undecodable -> JSONparseThrows(c0)
          [] f.op = 0  -> caseDispatch(c1, f)
          [] f.op = 9  -> caseInvalidSession(c1, f)
          [] f.op = 10 -> caseHello(c1, f)
          [] f.op = 11 -> caseHeartbeatAck(c1, f)
          [] OTHER     -> c1

\* ------------------------------------------------- the heartbeat tick
\* A tick with the previous heartbeat unacknowledged declares a zombie:
\* reconnect and stop; otherwise a Heartbeat frame with the current sequence.
HeartbeaterTick(c) ==
    LET c0 == Note(c, "tick", "Heartbeater")
    IN  IF ~c0.heartbeat_acked
        THEN HeartbeaterStop(reconnect(c0))
        ELSE [c0 EXCEPT !.log = Append(@, Ev("send", "Heartbeat", None, c0.sequence)),
                        !.heartbeat_acked = FALSE,
                        !.last_heartbeat = Some(c0.now)]

\* The transport's close event: stop the heartbeat, then reconnect.
onClose(c, t) ==
    LET c0 == Note([c EXCEPT !.open = @ \ {t}], "close", "transport")
    IN  reconnect(HeartbeaterStop(c0))

\* ------------------------------------------------------ state machine
Init ==
    /\ token = ""
    /\ session_id = None
    /\ sequence = None
    /\ should_resume = FALSE
    /\ heartbeat_interval = None
    /\ heartbeat_acked = FALSE
    /\ last_heartbeat = None
    /\ last_heartbeat_ack = None
    /\ ping = Some(-1)
    /\ ready = FALSE
    /\ connection = None
    /\ open = {}
    /\ nconn = 0
    /\ timers = {}
    /\ channels = <<>>
    /\ options = construct(ModuleHeap, None).client.options
    /\ heap = construct(ModuleHeap, None).heap
    /\ other = None
    /\ log = <<>>
    /\ frame = NoFrame
    /\ phase = "Idle"
    /\ hbSent = FALSE
    /\ hbTick = FALSE
    /\ inFlight = FALSE
    /\ stale = FALSE

Established(l) == Has(l, "emit", "ready") \/ Has(l, "emit", "resumed")

\* The history variables follow what the handler run did.
History(l) ==
    /\ phase' = CASE Has(l, "call", "connect")  -> "AwaitingHello"
                  [] Has(l, "send", "Resume")   -> "Resuming"
                  [] Has(l, "send", "Identify") -> "Identifying"
                  [] Established(l) /\ phase \in {"Resuming", "Identifying"} -> "Ready"
                  [] OTHER -> phase
    /\ hbSent' = CASE Has(l, "call", "connect")       -> FALSE
                   [] Has(l, "send", "Heartbeat")     -> TRUE
                   [] Has(l, "frame", "HeartbeatAck") -> FALSE
                   [] OTHER -> hbSent
    /\ hbTick' = CASE Has(l, "call", "connect") -> FALSE
                   [] Has(l, "tick", "Heartbeater") /\ Has(l, "send", "Heartbeat") -> TRUE
                   [] Has(l, "frame", "HeartbeatAck") \/ Has(l, "frame", "Hello") -> FALSE
                   [] OTHER -> hbTick
    /\ inFlight' = CASE Has(l, "call", "reconnect") /\ Has(l, "call", "connect") -> TRUE
                     [] Has(l, "frame", "Hello") -> FALSE
                     [] OTHER -> inFlight

\* The client after a handler run becomes the state.
Becomes(c) ==
    /\ c.nconn <= MaxConn
    /\ token' = c.token
    /\ session_id' = c.session_id
    /\ sequence' = c.sequence
    /\ should_resume' = c.should_resume
    /\ heartbeat_interval' = c.heartbeat_interval
    /\ heartbeat_acked' = c.heartbeat_acked
    /\ last_heartbeat' = c.last_heartbeat
    /\ last_heartbeat_ack' = c.last_heartbeat_ack
    /\ ping' = c.ping
    /\ ready' = c.ready
    /\ connection' = c.connection
    /\ open' = c.open
    /\ nconn' = c.nconn
    /\ timers' = c.timers
    /\ channels' = c.channels
    /\ options' = c.options
    /\ UNCHANGED <<heap, other>>
    /\ log' = c.log
    /\ frame' = c.frame
    /\ History(c.log)

\* The values Date.now() can return: the clock never runs backwards, so none
\* below a time already recorded. Only case 11 and the tick read the clock.
Recorded == { last_heartbeat[i] : i \in 1..Len(last_heartbeat) }
            \cup { last_heartbeat_ack[i] : i \in 1..Len(last_heartbeat_ack) }
Clock == { t \in Times : \A r \in Recorded : t >= r }

\* The application logs in, once.
Login ==
    /\ connection = None
    /\ \E tok \in Tokens : Becomes(login(Note(Client(0), "call", "login"), tok))
    /\ stale' = FALSE

\* The application (or any holder of the client) calls client.reconnect().
Reconnect ==
    /\ nconn < MaxConn \/ token = ""
    /\ Becomes(reconnect(Note(Client(0), "api", "reconnect")))
    /\ stale' = FALSE

\* An open transport delivers one of the frames F to the handler: the socket's
\* message listener calls message(client, data) whichever transport it is.
Deliver(F) ==
    \E f \in F :
       \E t \in (IF f.op = 11 THEN Clock ELSE {0}) : Becomes(message(Client(t), f))

OnFrame ==
    /\ open # {}
    /\ Deliver(Frames)
    /\ stale' = FALSE

\* The same, recording whether the transport is the one in use.
OnFrameVia ==
    /\ Deliver(Frames)
    /\ \E st \in { connection # Some(via) : via \in open } : stale' = st

\* The heartbeat timer fires.
Tick ==
    /\ timers # {}
    /\ \E t \in Clock : Becomes(HeartbeaterTick(Client(t)))
    /\ stale' = FALSE

\* The server (or the network) closes an open transport.
TransportClose ==
    /\ \E t \in open : Becomes(onClose(Client(0), t))
    /\ stale' = FALSE

Next == Login \/ Reconnect \/ OnFrame \/ Tick \/ TransportClose

Spec == Init /\ [][Next]_vars

\* The session of one connection with channels being created: the Hello, the
\* READY and the CHANNEL_CREATE Dispatches of a login.
ChannelFrames ==
    { ChannelCreate(1, ChannelData(Some(id), name, g)) :
        id \in ChannelIds, name \in Opt(ChannelNames), g \in Opt(GuildIds) }
CacheFrames ==
    { Frame(10, None, "", "", 100, FALSE), Frame(0, Some(1), "READY", "abc", 0, FALSE) }
    \cup ChannelFrames

OnCacheFrame ==
    /\ open # {}
    /\ Deliver(CacheFrames)
    /\ stale' = FALSE

NextCache == Login \/ OnCacheFrame

SpecCache == Init /\ [][NextCache]_vars

\* ------------------------------------------------- two clients, one process
\* The options an application passes to new Client(): none, or an object that
\* carries `intents` or not.
OptionArgs ==
    {None, Some([intents |-> None])}
    \cup { Some([intents |-> Some(IntentNames(n))]) :
             n \in {<<"Guilds">>, <<"Guilds", "GuildMembers">>} }
    \cup { Some([intents |-> Some(IntentBits({"GuildMembers"}))]) }

\* The frames of a login: Hello and READY.
LoginFrames ==
    { Frame(10, None, "", "", 100, FALSE), Frame(0, Some(1), "READY", "abc", 0, FALSE) }

OnLoginFrame ==
    /\ open # {}
    /\ Deliver(LoginFrames)
    /\ stale' = FALSE

\* The second client at the start of one of its handler runs.
Run(c) == [c EXCEPT !.now = 0, !.threw = FALSE, !.log = <<>>, !.frame = NoFrame]

Construct2 ==
    /\ other = None
    /\ \E o \in OptionArgs :
          /\ heap' = construct(heap, o).heap
          /\ other' = Some(construct(heap, o).client)
    /\ UNCHANGED clientVars

Login2 ==
    /\ other # None
    /\ other[1].connection = None
    /\ \E tok \in Tokens :
          other' = Some(login(Note(Run(other[1]), "call", "login"), tok))
    /\ UNCHANGED <<clientVars, heap>>

OnFrame2 ==
    /\ other # None
    /\ other[1].open # {}
    /\ \E f \in LoginFrames \cup {Frame(9, None, "", "", 0, FALSE)} :
          /\ message(Run(other[1]), f).nconn <= MaxConn
          /\ other' = Some(message(Run(other[1]), f))
    /\ UNCHANGED <<clientVars, heap>>

NextClients == Login \/ OnLoginFrame \/ Construct2 \/ Login2 \/ OnFrame2

SpecClients == Init /\ [][NextClients]_vars

\* The same program, with the transport of every frame recorded.
NextEpochs == Login \/ Reconnect \/ OnFrameVia \/ Tick \/ TransportClose

SpecEpochs == Init /\ [][NextEpochs]_vars

\* ------------------------------------------------------------- claims
\* The step is a run of the frame handler (log' starts with the frame).
FrameStep == Len(log') > 0 /\ log'[1].kind = "frame"
TickStep == Len(log') > 0 /\ log'[1].kind = "tick"
SentResumes(l) == { i \in 1..Len(l) : l[i].kind = "send" /\ l[i].name = "Resume" }

\* C1: with no resume pending, a Dispatch frame leaves sequence at the maximum
\* of the stored number and its own, and a Hello, HeartbeatAck or unknown-opcode
\* frame (which carries no sequence) leaves sequence as it was.
C1_SequenceIsMaxSeen ==
    [][(FrameStep /\ ~should_resume /\ frame'.op \in {0, 7, 10, 11})
        => sequence' = IF frame'.op = 0
                       THEN (IF sequence = None THEN frame'.s
                             ELSE Some(Max(sequence[1], frame'.s[1])))
                       ELSE sequence]_vars

\* A resume is under way: reconnect() found a session id and the session has
\* not been established again.
InResume == (phase = "AwaitingHello" /\ should_resume) \/ phase = "Resuming"

\* C2: while a resume is under way, the Hello frame that starts it, a
\* HeartbeatAck and a Dispatch that is not the session-establishing one leave
\* session_id as it is and never clear or lower sequence.
C2_ResumeKeepsSession ==
    [][(FrameStep /\ InResume /\ frame'.op \in {0, 10, 11}
        /\ (frame'.op = 10 => phase = "AwaitingHello")
        /\ frame'.t \notin {"READY", "RESUMED"})
        => /\ session_id' = session_id
           /\ sequence # None => (sequence' # None /\ sequence'[1] >= sequence[1])]_vars

\* C3: after an Invalid Session frame that says the session is not resumable,
\* session_id and sequence are cleared and no resume is pending, so the next
\* Hello is answered with Identify.
C3_NotResumableClears ==
    [][(FrameStep /\ frame'.op = 9 /\ ~frame'.resumable)
        => (session_id' = None /\ sequence' = None /\ ~should_resume')]_vars

\* C4 as stated: every Invalid Session frame makes the handler call reconnect().
C4_InvalidSessionAlwaysReconnects ==
    [][(FrameStep /\ frame'.op = 9) => Has(log', "call", "reconnect")]_vars

\* C4 amended: an Invalid Session frame processed with no resume pending makes
\* the handler call reconnect() once, whatever the resumable flag; one processed
\* while a resume is pending is ignored.
C4_InvalidSessionReconnectsUnlessResuming ==
    [][(FrameStep /\ frame'.op = 9)
        => Count(log', "call", "reconnect") = (IF should_resume THEN 0 ELSE 1)]_vars

C4_Witness ==
    /\ frame.op = 9 /\ frame.resumable
    /\ Count(log, "call", "reconnect") = 1 /\ Has(log, "call", "connect")

\* C5: a Hello frame is answered with exactly one session request, Resume if
\* and only if a resume was pending when it arrived and Identify otherwise;
\* afterwards no resume is pending, the heartbeat counts as acknowledged, the
\* interval is the one of the payload and the heartbeat timer is running.
C5_HelloSendsOneRequest ==
    [][(FrameStep /\ frame'.op = 10)
        => /\ Count(log', "send", "Resume") = (IF should_resume THEN 1 ELSE 0)
           /\ Count(log', "send", "Identify") = (IF should_resume THEN 0 ELSE 1)
           /\ ~should_resume'
           /\ heartbeat_acked'
           /\ heartbeat_interval' = Some(frame'.interval)
           /\ Has(log', "call", "Heartbeater.start")
           /\ timers' # {}]_vars

C5_Witness ==
    /\ frame.op = 10 /\ frame.interval = 200
    /\ Has(log, "send", "Resume") /\ heartbeat_interval = Some(200)

\* C6: every Resume frame sent carries a session id and a sequence number.
C6_ResumeCarriesBoth ==
    \A i \in SentResumes(log) : log[i].sid # None /\ log[i].seq # None

\* C7: processing a Hello frame never turns ready from false to true.
C7_HelloNeverSetsReady ==
    [][(FrameStep /\ frame'.op = 10 /\ ~ready) => ~ready']_vars

\* C8: a reconnect() made while a reconnect is in flight (its transport has had
\* no Hello yet) opens no transport, does not connect and emits no second
\* reconnecting notification.
C8_ReconnectIsExclusive ==
    [][(inFlight /\ Has(log', "call", "reconnect"))
        => /\ ~Has(log', "call", "connect")
           /\ ~Has(log', "emit", "reconnecting")
           /\ open' = open]_vars

\* C9: at most one transport is open and at most one heartbeat timer is
\* scheduled.
C9_OneTransportOneTimer ==
    Cardinality(open) <= 1 /\ Cardinality(timers) <= 1

\* C10 as stated: a tick that finds a heartbeat sent and no HeartbeatAck
\* processed since calls reconnect() once, sends no heartbeat and leaves no
\* timer.
C10_UnackedHeartbeatReconnects ==
    [][(TickStep /\ hbSent)
        => /\ Count(log', "call", "reconnect") = 1
           /\ ~Has(log', "send", "Heartbeat")
           /\ timers' = {}]_vars

\* C10 amended: a tick that finds a heartbeat sent by a tick and neither a
\* HeartbeatAck nor a Hello processed since calls reconnect() once, sends no
\* heartbeat and leaves no timer.
C10_UnackedTickReconnects ==
    [][(TickStep /\ hbTick)
        => /\ Count(log', "call", "reconnect") = 1
           /\ ~Has(log', "send", "Heartbeat")
           /\ timers' = {}]_vars

C10_Witness ==
    /\ Len(log) > 0 /\ log[1].kind = "tick"
    /\ Count(log, "call", "reconnect") = 1 /\ timers = {}
    /\ phase = "AwaitingHello" /\ Cardinality(open) = 2

\* C11: a frame delivered by a transport that reconnect() has replaced changes
\* none of session_id, sequence, should_resume, heartbeat_acked and ready, and
\* sends nothing.
C11_StaleFrameDiscarded ==
    [][(FrameStep /\ stale')
        => /\ UNCHANGED <<session_id, sequence, should_resume, heartbeat_acked, ready>>
           /\ \A i \in 1..Len(log') : log'[i].kind # "send"]_vars

\* C12: a Dispatch frame that arrives on the connection in use before its Hello
\* leaves sequence, session_id and ready as they are and emits nothing.
C12_DispatchBeforeHelloDiscarded ==
    [][(FrameStep /\ frame'.op = 0 /\ phase = "AwaitingHello" /\ Cardinality(open) = 1)
        => /\ UNCHANGED <<session_id, sequence, ready>>
           /\ \A i \in 1..Len(log') : log'[i].kind # "emit"]_vars

\* C13: a Reconnect Request frame (opcode 7) makes the handler call reconnect()
\* and leaves a resume pending for the new connection.
C13_ReconnectRequestResumes ==
    [][(FrameStep /\ frame'.op = 7)
        => (Has(log', "call", "reconnect") /\ should_resume')]_vars

\* C14: a malformed frame raises no error out of the handler and leaves
\* session_id, sequence, should_resume, heartbeat_acked and ready as they are.
C14_MalformedFrameDropped ==
    [][(FrameStep /\ frame' \in MalformedFrames)
        => /\ \A i \in 1..Len(log') : log'[i].kind # "throw"
           /\ UNCHANGED <<session_id, sequence, should_resume, heartbeat_acked, ready>>]_vars

\* C14, second half alone: a decoded frame without an opcode leaves the session
\* state as it is.
C14_NoOpcodeKeepsState ==
    [][(FrameStep /\ frame' = NoOpcode)
        => UNCHANGED <<session_id, sequence, should_resume, heartbeat_acked, ready>>]_vars

\* C15: a Dispatch whose event name has no registered action is emitted to the
\* event sink under that name.
C15_UnknownEventForwarded ==
    [][(FrameStep /\ frame'.op = 0 /\ frame'.t = "OTHER") => Has(log', "emit", "OTHER")]_vars

\* C18: a HeartbeatAck frame sets heartbeat_acked, records the time of the ack,
\* sets ping to that time minus the time of the last heartbeat, and leaves
\* session_id, sequence, should_resume and ready as they are.
C18_HeartbeatAckFrame ==
    [][(FrameStep /\ frame'.op = 11)
        => /\ heartbeat_acked'
           /\ last_heartbeat_ack' \in { Some(t) : t \in Clock }
           /\ ping' = IF last_heartbeat = None THEN None
                      ELSE Some(last_heartbeat_ack'[1] - last_heartbeat[1])
           /\ UNCHANGED <<session_id, sequence, should_resume, ready>>]_vars

\* A step that is one call of client.reconnect() which returned.
ReconnectReturned(l) ==
    /\ Len(l) > 0
    /\ l[1].kind = "api"
    /\ l[1].name = "reconnect"
    /\ \A i \in 1..Len(l) : l[i].kind # "throw"

\* What C17 says of every field but sequence.
ReconnectEffect ==
    /\ should_resume' = (session_id # None)
    /\ session_id' = session_id
    /\ ~ready'
    /\ timers' = {}
    /\ Count(log', "call", "Heartbeater.stop") >= 1
    /\ Count(log', "call", "connect") = 1
    /\ token' = token

\* C17 as stated: after reconnect() returns, should_resume tells whether a
\* session id was present, session_id and sequence are as before the call, ready
\* is false, the heartbeat timer is stopped and connect() ran once with the same
\* token.
C17_ReconnectKeepsSequence ==
    [][ReconnectReturned(log') => (ReconnectEffect /\ sequence' = sequence)]_vars

\* C17, amended: the same, with sequence kept when a session id was present;
\* with none, connect() starts the new connection without a sequence.
C17_ReconnectEffect ==
    [][ReconnectReturned(log')
        => /\ ReconnectEffect
           /\ sequence' = IF session_id # None THEN sequence ELSE None]_vars

C17_Witness ==
    /\ ReconnectReturned(log)
    /\ should_resume
    /\ session_id # None
    /\ sequence # None
    /\ ~ready
    /\ phase = "AwaitingHello"

\* A step that handled a CHANNEL_CREATE Dispatch.
ChannelStep == FrameStep /\ frame'.t = "CHANNEL_CREATE"

\* C16: merging a snapshot into a channel not cached gives data equal to the
\* snapshot; into a cached channel, every field the snapshot carries takes its
\* value and every other field keeps its prior value, the channel's guildId
\* included when the snapshot carries no guild id.
C16_MergeKeepsAbsentFields ==
    [][ChannelStep =>
        LET snap == frame'.chan
            id   == snap.id[1]
        IN  IF id \notin DOMAIN channels
            THEN channels'[id].data = snap
            ELSE /\ \A k \in DOMAIN snap :
                       channels'[id].data[k] =
                          IF snap[k] # None THEN snap[k] ELSE channels[id].data[k]
                 /\ channels'[id].guildId =
                       IF snap.guild_id # None THEN snap.guild_id
                       ELSE channels[id].guildId]_vars

\* C19: a CHANNEL_CREATE Dispatch updates the cache, under the channel's id
\* and no other, before anything is emitted; channelCreate, carrying the cached
\* channel, is emitted exactly when ready was true, and nothing is emitted
\* otherwise.
C19_CacheThenEmitIfReady ==
    [][ChannelStep =>
        LET id == frame'.chan.id[1]
            l  == log'
        IN  /\ Count(l, "call", "channels.updateOrSet") = 1
            /\ DOMAIN channels' = DOMAIN channels \cup {id}
            /\ channels'[id].data.id = Some(id)
            /\ \A k \in DOMAIN channels \ {id} : channels'[k] = channels[k]
            /\ \A i \in 1..Len(l) :
                  l[i].kind = "emit" =>
                     /\ \E j \in 1..(i - 1) :
                           l[j].kind = "call" /\ l[j].name = "channels.updateOrSet"
                     /\ l[i].name = "channelCreate"
                     /\ l[i].arg = Some(channels'[id])
            /\ Count(l, "emit", "channelCreate") = (IF ready THEN 1 ELSE 0)]_vars

C19_Witness ==
    /\ Len(log) > 0
    /\ log[1].kind = "frame"
    /\ frame.t = "CHANNEL_CREATE"
    /\ ready
    /\ Has(log, "emit", "channelCreate")
    /\ DOMAIN channels = ChannelIds
    /\ \E id \in ChannelIds : channels[id].data.name = None

\* C20: constructing a second Client, or running an operation on it, leaves the
\* options and the session state of the first Client as they were.
C20_ClientsIndependent ==
    [][other' # other
        => /\ heap'[options'] = heap[options]
           /\ UNCHANGED <<session_id, sequence, should_resume, ready>>]_vars

====
